---- MODULE Spec2Model ----
(***************************************************************************)
(* NPC speech pipeline: NPCVoiceManager (initialisation, request/response  *)
(* correlation, speak pipeline, playback scheduler), the TTS worker it     *)
(* talks to, and the audio device it plays on.                             *)
(*                                                                         *)
(* The manager runs on one cooperative thread: every action below is one   *)
(* task of that thread (an API call, a message handler, a device callback) *)
(* together with the promise continuations it makes runnable, which the    *)
(* microtask checkpoint runs before any other task.  The worker is a       *)
(* second thread reached only through the two message channels.            *)
(***************************************************************************)
EXTENDS Integers, Sequences, FiniteSets, TLC

\* ---- bounds of the model ------------------------------------------------
MaxCalls == 4          \* init() and speakSentence() calls the caller makes
MaxProgress == 1       \* init_progress messages the engine loader reports
MaxDeviceFaults == 1   \* audio-device operations that raise
MaxStray == 1          \* responses put on the channel that answer no open request
MaxUrls == 2           \* distinct model URLs
MaxRequests == 4       \* calls to the character loader

NoSource == 0          \* currentSource = null

VARIABLES
    \* NPCVoiceManager fields
    worker,            \* TRUE iff this.worker is set
    audioCtx,          \* TRUE iff this.audioCtx is set
    playbackQueue,     \* sequence of clips (a clip is named by its request id)
    isPlaying,
    currentSource,     \* index into sources, or NoSource
    nextId,
    pending,           \* keys of the correlation table
    initialized,
    initPromise,       \* "null", "pending", "fulfilled", "rejected"
    onmessage,         \* worker.onmessage: "none", "init" (closure of _init), "steady" (handleMessage)
    \* tts-worker state
    tts,               \* TRUE iff the engine instance is set
    loading,           \* TRUE while from_pretrained is awaited
    generating,        \* ids whose tts.generate call is awaited
    progressSent,
    \* channels (postMessage keeps order in each direction)
    toWorker,
    toMain,
    \* audio device
    sources,           \* sequence of the buffer sources created by drainQueue
    deviceFaults,
    \* observations of the callers and of the device
    initCalls,         \* the init() calls made: when each was made and how its promise settled
                       \* (calls made at the same point and settled alike are one record)
    ret,               \* per request id: what the speakSentence call returned
    earlyReturn,       \* when the last speakSentence call that returned 0 without a request was made
    started,           \* clips in the order the device started them
    enqueued,          \* clips in the order they were appended to playbackQueue
    handled,           \* <<type, id>> of the worker messages the manager has processed
    workersSpawned,
    initPosted,
    generatePosted,    \* ids of the 'generate' messages posted, in order
    progressCalls,     \* invocations of the onProgress callback
    progressTo,        \* whose callback was invoked: the time of the init() call that passed it
    onProgress,        \* the callback captured by the handler that _init installed
    calls,             \* init() and speakSentence() calls made so far
    duration,          \* per request id: the number speakSentence returned, in milliseconds
    strays,            \* responses put on the channel by StrayReply
    \* CharacterLoaderSingleton
    cache,             \* the URLs that have a cached model
    pendingLoads,      \* the URLs that have an entry in the loader's pending map
    inFlight,          \* per URL: gltfLoader.load calls whose callback has not fired
    loadsStarted,      \* per URL: gltfLoader.load calls made so far
    requests           \* preload / getClone / loadAnimationClips calls made so far

mgrVars == <<worker, audioCtx, playbackQueue, isPlaying, currentSource, nextId,
             pending, initialized, initPromise, onmessage>>
wrkVars == <<tts, loading, generating, progressSent>>
chanVars == <<toWorker, toMain>>
devVars == <<sources, deviceFaults>>
obsVars == <<initCalls, ret, earlyReturn, started, enqueued, handled,
             workersSpawned, initPosted, generatePosted, progressCalls, progressTo, onProgress, calls,
             duration, strays>>
ldrVars == <<cache, pendingLoads, inFlight, loadsStarted, requests>>
voiceVars == <<mgrVars, wrkVars, chanVars, devVars, obsVars>>
vars == <<voiceVars, ldrVars>>

Ids == 0..(MaxCalls - 1)
Urls == 1..MaxUrls
NoId == -1
Msg(t, i) == [type |-> t, id |-> i]

Init ==
    /\ worker = FALSE
    /\ audioCtx = FALSE
    /\ playbackQueue = <<>>
    /\ isPlaying = FALSE
    /\ currentSource = NoSource
    /\ nextId = 0
    /\ pending = {}
    /\ initialized = FALSE
    /\ initPromise = "null"
    /\ onmessage = "none"
    /\ tts = FALSE
    /\ loading = FALSE
    /\ generating = {}
    /\ progressSent = 0
    /\ toWorker = <<>>
    /\ toMain = <<>>
    /\ sources = <<>>
    /\ deviceFaults = 0
    /\ initCalls = {}
    /\ ret = [i \in Ids |-> "unissued"]
    /\ earlyReturn = "none"
    /\ started = <<>>
    /\ enqueued = <<>>
    /\ handled = {}
    /\ workersSpawned = 0
    /\ initPosted = 0
    /\ generatePosted = <<>>
    /\ progressCalls = 0
    /\ progressTo = {}
    /\ onProgress = "none"
    /\ calls = 0
    /\ duration = [i \in Ids |-> 0]
    /\ strays = 0
    /\ cache = {}
    /\ pendingLoads = {}
    /\ inFlight = [u \in Urls |-> 0]
    /\ loadsStarted = [u \in Urls |-> 0]
    /\ requests = 0

\* ---- playback scheduler -------------------------------------------------
\* The scheduler's state as one value, so that push, drainQueue and the
\* onended callback can be chained inside one handler.
Sched == [q |-> playbackQueue, playing |-> isPlaying, cur |-> currentSource,
          srcs |-> sources, started |-> started, faults |-> deviceFaults,
          threw |-> FALSE]

\* What the device does when drainQueue uses it: "ok", createBufferSource /
\* connect raises ("createThrows"), or source.start() raises ("startThrows").
DevOutcomes == IF deviceFaults < MaxDeviceFaults
               THEN {"ok", "createThrows", "startThrows"} ELSE {"ok"}

Source(c, st) == [clip |-> c, state |-> st, endedFired |-> FALSE, stops |-> 0]

\* Reading the head without removing it.
shift_peek(q) == [buffer |-> Head(q), rest |-> q]

\* playbackQueue.pop() in place of shift(): the newest clip first.
shift_pop(q) == [buffer |-> q[Len(q)], rest |-> SubSeq(q, 1, Len(q) - 1)]

\* playbackQueue.shift()
shift(q) == [buffer |-> Head(q), rest |-> Tail(q)]

drainQueue(s, ctx, dev) ==
    IF s.playing \/ Len(s.q) = 0 \/ ~ctx THEN s
    ELSE LET buffer == shift(s.q).buffer
             s1 == [s EXCEPT !.playing = TRUE, !.q = shift(s.q).rest]
         IN  CASE dev = "createThrows" ->
                    [s1 EXCEPT !.threw = TRUE, !.faults = @ + 1]
               [] dev = "startThrows" ->
                    [s1 EXCEPT !.srcs = Append(@, Source(buffer, "unstarted")),
                               !.cur = Len(s.srcs) + 1,
                               !.threw = TRUE, !.faults = @ + 1]
               [] OTHER ->
                    [s1 EXCEPT !.srcs = Append(@, Source(buffer, "playing")),
                               !.cur = Len(s.srcs) + 1,
                               !.started = Append(@, buffer)]

\* source.onended
onended(s, ctx, dev) ==
    drainQueue([s EXCEPT !.playing = FALSE, !.cur = NoSource], ctx, dev)

\* AudioBufferSourceNode.stop(): raises on a source that was never started
\* (the caller catches it); the 'ended' event of a playing source is still
\* dispatched afterwards.
DeviceStop(src) ==
    [src EXCEPT !.stops = @ + 1,
                !.state = IF @ = "playing" THEN "stopped" ELSE @]

stopPlaybackSched(s) ==
    [s EXCEPT !.q = <<>>,
              !.srcs = IF s.cur # NoSource
                       THEN [@ EXCEPT ![s.cur] = DeviceStop(@)] ELSE @,
              !.cur = NoSource,
              !.playing = FALSE]

SetSched(s) ==
    /\ playbackQueue' = s.q
    /\ isPlaying' = s.playing
    /\ currentSource' = s.cur
    /\ sources' = s.srcs
    /\ started' = s.started
    /\ deviceFaults' = s.faults

\* ---- NPCVoiceManager.init / _init ---------------------------------------
\* The branch init() takes: "return" (already initialised), "shared" (hand
\* out the stored initPromise) or "start" (run _init and store its promise).
\* init() without the initPromise check: every call before Ready runs _init.
init_branch_nocoalesce(initd, prom) ==
    IF initd THEN "return" ELSE "start"

\* init() that returns at once when an initialisation is already stored.
init_branch_noawait(initd, prom) ==
    IF initd \/ prom # "null" THEN "return" ELSE "start"

\* init() that shares only a pending initPromise and retries a settled one.
init_branch_retry(initd, prom) ==
    IF initd THEN "return"
    ELSE IF prom = "pending" THEN "shared"
    ELSE "start"

init_branch(initd, prom) ==
    IF initd THEN "return"
    ELSE IF prom # "null" THEN "shared"
    ELSE "start"

\* When a call is made, as its caller could observe it.
CallTime == IF initialized THEN "ready"
            ELSE IF initPromise = "null" THEN "first"
            ELSE IF initPromise = "pending" THEN "inflight"
            ELSE "settled"

\* The same for a speakSentence call: before the initialisation has ended
\* ("starting"), after it failed ("settled"), or with initialized set ("ready").
SpeakTime == IF CallTime \in {"first", "inflight"} THEN "starting" ELSE CallTime

InitCaller(at, via, out) == [at |-> at, via |-> via, outcome |-> out]

\* Settling initPromise settles every call that is waiting on it.
Settle(callers, out) ==
    {IF c.via = "promise" /\ c.outcome = "pending"
     THEN [c EXCEPT !.outcome = out] ELSE c : c \in callers}

\* An init() that re-binds the handler's callback on every call.
closureCallback_latest(b, caller, cur) == caller

\* _init(onProgress): the handler it installs closes over its own argument;
\* a call that does not run _init leaves the installed handler as it is.
closureCallback(b, caller, cur) == IF b = "start" THEN caller ELSE cur

InitCall ==
    /\ calls < MaxCalls
    /\ calls' = calls + 1
    /\ onProgress' = closureCallback(init_branch(initialized, initPromise),
                                     CallTime, onProgress)
    /\ LET b == init_branch(initialized, initPromise) IN
       CASE b = "return" ->
              /\ initCalls' = initCalls \cup {InitCaller(CallTime, "return", "fulfilled")}
              /\ UNCHANGED <<mgrVars, chanVars, workersSpawned, initPosted>>
         [] b = "shared" ->
              /\ initCalls' = initCalls \cup {InitCaller(CallTime, "promise", initPromise)}
              /\ UNCHANGED <<mgrVars, chanVars, workersSpawned, initPosted>>
         [] OTHER ->
              /\ worker' = TRUE
              /\ workersSpawned' = workersSpawned + 1
              /\ onmessage' = "init"
              /\ toWorker' = Append(toWorker, Msg("init", NoId))
              /\ initPosted' = initPosted + 1
              /\ initPromise' = "pending"
              /\ initCalls' = initCalls \cup {InitCaller(CallTime, "promise", "pending")}
              /\ UNCHANGED <<audioCtx, playbackQueue, isPlaying, currentSource,
                             nextId, pending, initialized, toMain>>
    /\ UNCHANGED <<wrkVars, devVars, ret, earlyReturn, started, enqueued,
                   handled, generatePosted, progressCalls, progressTo, duration, strays, ldrVars>>

\* A handler that takes the last progress report for the end of loading.
InitMessageEffect_early(t) ==
    [progress       |-> t = "init_progress",
     setInitialized |-> t \in {"init_done", "init_progress"},
     swapHandler    |-> t = "init_done",
     settle         |-> CASE t = "init_done" -> "resolve"
                          [] t = "init_error" -> "reject"
                          [] OTHER -> "none"]

\* What the message handler installed by _init does with a message of type t.
InitMessageEffect(t) ==
    [progress       |-> t = "init_progress",
     setInitialized |-> t = "init_done",
     swapHandler    |-> t = "init_done",
     settle         |-> CASE t = "init_done" -> "resolve"
                          [] t = "init_error" -> "reject"
                          [] OTHER -> "none"]

\* The manager takes the next worker message of type t while the handler of
\* _init is (or is not) installed.  resolve() makes the rest of _init
\* runnable: it creates the AudioContext, which the device may refuse.
RecvInit(t) ==
    /\ Head(toMain).type = t
    /\ toMain' = Tail(toMain)
    /\ IF onmessage = "init"
       THEN LET e == InitMessageEffect(t)
                settles == e.settle # "none" /\ initPromise = "pending"
            IN  /\ handled' = handled \cup {<<t, NoId>>}
                /\ progressCalls' = progressCalls + (IF e.progress THEN 1 ELSE 0)
                /\ progressTo' = IF e.progress THEN progressTo \cup {onProgress}
                                 ELSE progressTo
                /\ initialized' = (initialized \/ e.setInitialized)
                /\ onmessage' = IF e.swapHandler THEN "steady" ELSE onmessage
                /\ IF settles /\ e.settle = "resolve"
                   THEN \E created \in BOOLEAN :
                          /\ audioCtx' = created
                          /\ initPromise' = IF created THEN "fulfilled" ELSE "rejected"
                          /\ initCalls' = Settle(initCalls, initPromise')
                   ELSE IF settles
                   THEN /\ initPromise' = "rejected"
                        /\ initCalls' = Settle(initCalls, "rejected")
                        /\ UNCHANGED audioCtx
                   ELSE UNCHANGED <<audioCtx, initPromise, initCalls>>
       ELSE UNCHANGED <<handled, progressCalls, progressTo, initialized, onmessage,
                        audioCtx, initPromise, initCalls>>
    /\ UNCHANGED <<worker, playbackQueue, isPlaying, currentSource, nextId, pending,
                   wrkVars, toWorker, devVars, ret, earlyReturn, started, enqueued,
                   workersSpawned, initPosted, generatePosted, calls, duration, strays,
                   onProgress, ldrVars>>

RecvInitProgress ==
    /\ toMain # <<>>
    /\ RecvInit("init_progress")

RecvInitDone ==
    /\ toMain # <<>>
    /\ RecvInit("init_done")

RecvInitError ==
    /\ toMain # <<>>
    /\ RecvInit("init_error")

\* ---- speakSentence / generateAudio / handleMessage ----------------------
\* A guard that checks the engine state only.
speakGuard_noDevice(ctx, initd) == ~initd

\* The guard of speakSentence: TRUE means "return 0 immediately".
speakGuard(ctx, initd) == ~ctx \/ ~initd

\* speakSentence without its catch block.
speakCatch_rethrow(outcome) == IF outcome = "throw" THEN "rejected" ELSE outcome

\* try { ... } catch { return 0 }: what the call returns for the outcome of
\* its try block ("throw" or "duration").
speakCatch(outcome) == IF outcome = "throw" THEN "zero" ELSE outcome

\* A counter that wraps: ids come back after two requests.
NextRequestId_wrap(n) == (n + 1) % 2

\* generateAudio: const id = this.nextId++
NextRequestId(n) == n + 1

SpeakSentence ==
    /\ calls < MaxCalls
    /\ calls' = calls + 1
    /\ IF speakGuard(audioCtx, initialized) \/ ~worker
       THEN \* guard, or generateAudio rejecting at once: 0, no id allocated
            /\ earlyReturn' = SpeakTime
            /\ UNCHANGED <<nextId, pending, toWorker, ret, generatePosted>>
       ELSE /\ nextId' = NextRequestId(nextId)
            /\ pending' = pending \cup {nextId}
            /\ toWorker' = Append(toWorker, Msg("generate", nextId))
            /\ generatePosted' = Append(generatePosted, nextId)
            /\ ret' = [ret EXCEPT ![nextId] = "pending"]
            /\ UNCHANGED earlyReturn
    /\ UNCHANGED <<worker, audioCtx, playbackQueue, isPlaying, currentSource,
                   initialized, initPromise, onmessage, wrkVars, toMain, devVars,
                   initCalls, started, enqueued, handled, workersSpawned,
                   initPosted, progressCalls, progressTo, onProgress, duration, strays, ldrVars>>

\* A queue kept in call order: the new clip goes before the clips of later calls.
speakResume_byCallOrder(s, id, ctx, built, dev) ==
    IF ~built THEN [s EXCEPT !.threw = TRUE, !.faults = @ + 1]
    ELSE drainQueue([s EXCEPT !.q = SelectSeq(@, LAMBDA x : x < id) \o <<id>>
                                     \o SelectSeq(@, LAMBDA x : x > id)],
                    ctx, dev)

\* unshift() in place of push(): the new clip goes to the front.
speakResume_unshift(s, id, ctx, built, dev) ==
    IF ~built THEN [s EXCEPT !.threw = TRUE, !.faults = @ + 1]
    ELSE drainQueue([s EXCEPT !.q = <<id>> \o @], ctx, dev)

\* The rest of speakSentence after generateAudio fulfilled for clip id:
\* createBuffer (which may raise), push, drainQueue.
speakResume(s, id, ctx, built, dev) ==
    IF ~built THEN [s EXCEPT !.threw = TRUE, !.faults = @ + 1]
    ELSE drainQueue([s EXCEPT !.q = Append(@, id)], ctx, dev)

BuildOutcomes == IF deviceFaults < MaxDeviceFaults THEN BOOLEAN ELSE {TRUE}

\* sampleRate / audio.length
Duration_inverse(n, r) == (r * 1000) \div n

\* const duration = audio.length / sampleRate, in milliseconds
Duration(n, r) == (n * 1000) \div r

\* A handler without the "if (req)" test.
hasRequest_any(p, id) == TRUE

\* A handler that serves the table in request order only.
hasRequest_inOrder(p, id) == id \in p /\ \A j \in p : id <= j

\* const req = this.pending.get(msg.id); if (req) ...
hasRequest(p, id) == id \in p

\* pending.clear() in place of delete(id)
deleteEntry_clear(p, id) == {}

\* a handler that forgets to delete the entry
deleteEntry_keep(p, id) == p

\* this.pending.delete(msg.id)
deleteEntry(p, id) == p \ {id}

RecvGenerateDone ==
    /\ toMain # <<>>
    /\ Head(toMain).type = "generate_done"
    /\ toMain' = Tail(toMain)
    /\ LET id == Head(toMain).id IN
       IF onmessage = "steady" /\ hasRequest(pending, id)
       THEN /\ pending' = deleteEntry(pending, id)
            /\ handled' = handled \cup {<<"generate_done", id>>}
            /\ \E built \in BuildOutcomes, dev \in DevOutcomes :
                 LET s == speakResume(Sched, id, audioCtx, built, dev) IN
                 /\ SetSched(s)
                 /\ enqueued' = IF built THEN Append(enqueued, id) ELSE enqueued
                 /\ ret' = [ret EXCEPT ![id] =
                              speakCatch(IF s.threw THEN "throw" ELSE "duration")]
                 /\ duration' = [duration EXCEPT ![id] =
                        IF s.threw THEN 0
                        ELSE Duration(Head(toMain).len, Head(toMain).sampleRate)]
       ELSE /\ handled' = handled \cup {<<"stale", id>>}
            /\ UNCHANGED <<pending, playbackQueue, isPlaying, currentSource,
                           devVars, started, enqueued, ret, duration>>
    /\ UNCHANGED <<worker, audioCtx, nextId, initialized, initPromise, onmessage,
                   wrkVars, toWorker, initCalls, earlyReturn, workersSpawned,
                   initPosted, generatePosted, progressCalls, progressTo, onProgress, calls, strays, ldrVars>>

RecvGenerateError ==
    /\ toMain # <<>>
    /\ Head(toMain).type = "generate_error"
    /\ toMain' = Tail(toMain)
    /\ LET id == Head(toMain).id IN
       IF onmessage = "steady" /\ hasRequest(pending, id)
       THEN /\ pending' = deleteEntry(pending, id)
            /\ handled' = handled \cup {<<"generate_error", id>>}
            /\ ret' = [ret EXCEPT ![id] = speakCatch("throw")]
       ELSE /\ handled' = handled \cup {<<"stale", id>>}
            /\ UNCHANGED <<pending, ret>>
    /\ UNCHANGED <<worker, audioCtx, playbackQueue, isPlaying, currentSource, nextId,
                   initialized, initPromise, onmessage, wrkVars, toWorker, devVars,
                   initCalls, earlyReturn, started, enqueued, workersSpawned,
                   initPosted, generatePosted, progressCalls, progressTo, onProgress, calls, duration, strays, ldrVars>>

\* ---- stopPlayback and the device's 'ended' events -----------------------
\* A stopPlayback that also drops the open requests.
stopPlaybackTable_clear(p) == {}

\* stopPlayback does not touch this.pending
stopPlaybackTable(p) == p

StopPlayback ==
    /\ SetSched(stopPlaybackSched(Sched))
    /\ pending' = stopPlaybackTable(pending)
    /\ UNCHANGED <<worker, audioCtx, nextId, initialized, initPromise,
                   onmessage, wrkVars, chanVars, initCalls, ret, earlyReturn,
                   enqueued, handled, workersSpawned, initPosted, generatePosted,
                   progressCalls, progressTo, onProgress, calls, duration, strays, ldrVars>>

\* The device dispatches 'ended' for source i: st is the state the source
\* is in when that happens.
EndedEvent(i, st) ==
    /\ sources[i].state = st
    /\ ~sources[i].endedFired
    /\ \E dev \in DevOutcomes :
         LET fired == [Sched EXCEPT !.srcs[i].endedFired = TRUE,
                                    !.srcs[i].state = IF st = "playing" THEN "finished" ELSE @]
         IN  SetSched(onended(fired, audioCtx, dev))
    /\ UNCHANGED <<worker, audioCtx, nextId, pending, initialized, initPromise,
                   onmessage, wrkVars, chanVars, initCalls, ret, earlyReturn,
                   enqueued, handled, workersSpawned, initPosted, generatePosted,
                   progressCalls, progressTo, onProgress, calls, duration, strays, ldrVars>>

\* a clip plays to its end
SourceEnded == \E i \in DOMAIN sources : EndedEvent(i, "playing")
\* the 'ended' event of a clip that stopPlayback has stopped
StoppedSourceEnded == \E i \in DOMAIN sources : EndedEvent(i, "stopped")

\* ---- tts-worker ---------------------------------------------------------
WorkerRecvInit ==
    /\ toWorker # <<>>
    /\ Head(toWorker).type = "init"
    /\ toWorker' = Tail(toWorker)
    /\ loading' = TRUE
    /\ UNCHANGED <<mgrVars, tts, generating, progressSent, toMain, devVars, obsVars, ldrVars>>

\* progress_callback of from_pretrained
WorkerProgress ==
    /\ loading
    /\ progressSent < MaxProgress
    /\ progressSent' = progressSent + 1
    /\ toMain' = Append(toMain, Msg("init_progress", NoId))
    /\ UNCHANGED <<mgrVars, tts, loading, generating, toWorker, devVars, obsVars, ldrVars>>

WorkerInitDone ==
    /\ loading
    /\ loading' = FALSE
    /\ tts' = TRUE
    /\ toMain' = Append(toMain, Msg("init_done", NoId))
    /\ UNCHANGED <<mgrVars, generating, progressSent, toWorker, devVars, obsVars, ldrVars>>

WorkerInitError ==
    /\ loading
    /\ loading' = FALSE
    /\ toMain' = Append(toMain, Msg("init_error", NoId))
    /\ UNCHANGED <<mgrVars, tts, generating, progressSent, toWorker, devVars, obsVars, ldrVars>>

\* A worker that hands every request to the engine.
engineMissing_never(t) == FALSE

\* if (!tts)
engineMissing(t) == ~t

WorkerRecvGenerate ==
    /\ toWorker # <<>>
    /\ Head(toWorker).type = "generate"
    /\ toWorker' = Tail(toWorker)
    /\ IF engineMissing(tts)
       THEN /\ toMain' = Append(toMain, Msg("generate_error", Head(toWorker).id))
            /\ UNCHANGED generating
       ELSE /\ generating' = generating \cup {Head(toWorker).id}
            /\ UNCHANGED toMain
    /\ UNCHANGED <<mgrVars, tts, loading, progressSent, devVars, obsVars, ldrVars>>

\* The engine's output for request id: each line has its own length, at the
\* engine's fixed rate (result.audio, result.sampling_rate).
EngineRate == 24000
EngineSamples(id) == 12000 * (id + 1)

Reply(t, id) ==
    IF t = "generate_done"
    THEN [type |-> t, id |-> id, len |-> EngineSamples(id), sampleRate |-> EngineRate]
    ELSE Msg(t, id)

\* A handler that stays in flight after it has posted its reply.
handlerReturns_stay(g, id) == g

\* The generate handler ends after its postMessage: request id is no longer in flight.
handlerReturns(g, id) == g \ {id}

\* tts.generate returns (t = "generate_done") or raises (t = "generate_error")
WorkerReply(t) ==
    \E id \in generating :
        /\ generating' = handlerReturns(generating, id)
        /\ toMain' = Append(toMain, Reply(t, id))
        /\ UNCHANGED <<mgrVars, tts, loading, progressSent, toWorker, devVars, obsVars, ldrVars>>

WorkerGenerateDone ==
    /\ generating # {}
    /\ WorkerReply("generate_done")

WorkerGenerateError ==
    /\ generating # {}
    /\ WorkerReply("generate_error")

\* ---- specifications -----------------------------------------------------
Next ==
    \/ InitCall
    \/ RecvInitProgress
    \/ RecvInitDone
    \/ RecvInitError
    \/ SpeakSentence
    \/ RecvGenerateDone
    \/ RecvGenerateError
    \/ StopPlayback
    \/ SourceEnded
    \/ StoppedSourceEnded
    \/ WorkerRecvInit
    \/ WorkerProgress
    \/ WorkerInitDone
    \/ WorkerInitError
    \/ WorkerRecvGenerate
    \/ WorkerGenerateDone
    \/ WorkerGenerateError

Spec == Init /\ [][Next]_vars

\* The caller awaits every speakSentence call before making the next one and
\* never calls stopPlayback.
NoCallPending == \A i \in Ids : ret[i] # "pending"
SpeakSentenceAwaited == NoCallPending /\ SpeakSentence

NextAwaited ==
    \/ InitCall
    \/ RecvInitProgress
    \/ RecvInitDone
    \/ RecvInitError
    \/ SpeakSentenceAwaited
    \/ RecvGenerateDone
    \/ RecvGenerateError
    \/ SourceEnded
    \/ WorkerRecvInit
    \/ WorkerProgress
    \/ WorkerInitDone
    \/ WorkerInitError
    \/ WorkerRecvGenerate
    \/ WorkerGenerateDone
    \/ WorkerGenerateError

SpecAwaited == Init /\ [][NextAwaited]_vars

\* A response that answers no open request reaches the manager's handler: a
\* second copy of a response, or one for an id the manager has not handed out.
StrayReply ==
    /\ strays < MaxStray
    /\ onmessage = "steady"
    /\ strays' = strays + 1
    /\ \E t \in {"generate_done", "generate_error"}, id \in Ids :
          toMain' = Append(toMain, Reply(t, id))
    /\ UNCHANGED <<mgrVars, wrkVars, toWorker, devVars, initCalls, ret,
                   earlyReturn, started, enqueued, handled, workersSpawned,
                   initPosted, generatePosted, progressCalls, progressTo, onProgress, calls, duration,
                   ldrVars>>

\* The awaiting caller, on a channel that can carry stray responses.
NextStray ==
    \/ InitCall
    \/ RecvInitProgress
    \/ RecvInitDone
    \/ RecvInitError
    \/ SpeakSentenceAwaited
    \/ RecvGenerateDone
    \/ RecvGenerateError
    \/ SourceEnded
    \/ WorkerRecvInit
    \/ WorkerProgress
    \/ WorkerInitDone
    \/ WorkerInitError
    \/ WorkerRecvGenerate
    \/ WorkerGenerateDone
    \/ WorkerGenerateError
    \/ StrayReply

SpecStray == Init /\ [][NextStray]_vars

\* The worker on its own: its client posts one 'init' and any
\* number of 'generate' messages, at any time and in any order, and leaves the
\* replies on the channel.
ClientPostInit ==
    /\ calls < MaxCalls
    /\ initPosted = 0
    /\ calls' = calls + 1
    /\ initPosted' = initPosted + 1
    /\ toWorker' = Append(toWorker, Msg("init", NoId))
    /\ UNCHANGED <<mgrVars, wrkVars, toMain, devVars, initCalls, ret,
                   earlyReturn, started, enqueued, handled, workersSpawned,
                   generatePosted, progressCalls, progressTo, onProgress, duration, strays, ldrVars>>

ClientPostGenerate ==
    /\ calls < MaxCalls
    /\ calls' = calls + 1
    /\ toWorker' = Append(toWorker, Msg("generate", Len(generatePosted)))
    /\ generatePosted' = Append(generatePosted, Len(generatePosted))
    /\ UNCHANGED <<mgrVars, wrkVars, toMain, devVars, initCalls, ret,
                   earlyReturn, started, enqueued, handled, workersSpawned,
                   initPosted, progressCalls, progressTo, onProgress, duration, strays, ldrVars>>

NextWorker ==
    \/ ClientPostInit
    \/ ClientPostGenerate
    \/ WorkerRecvInit
    \/ WorkerProgress
    \/ WorkerInitDone
    \/ WorkerInitError
    \/ WorkerRecvGenerate
    \/ WorkerGenerateDone
    \/ WorkerGenerateError

SpecWorker == Init /\ [][NextWorker]_vars

\* The engine library calls progress_callback once more after from_pretrained
\* has settled (a download that was still running): a late init_progress.
WorkerLateProgress ==
    /\ strays < MaxStray
    /\ initPosted > 0
    /\ \A n \in DOMAIN toWorker : toWorker[n].type # "init"
    /\ ~loading
    /\ strays' = strays + 1
    /\ toMain' = Append(toMain, Msg("init_progress", NoId))
    /\ UNCHANGED <<mgrVars, wrkVars, toWorker, devVars, initCalls, ret,
                   earlyReturn, started, enqueued, handled, workersSpawned,
                   initPosted, generatePosted, progressCalls, progressTo,
                   onProgress, calls, duration, ldrVars>>

\* The awaiting caller, with a worker that can report progress late.
NextLate ==
    \/ InitCall
    \/ RecvInitProgress
    \/ RecvInitDone
    \/ RecvInitError
    \/ SpeakSentenceAwaited
    \/ RecvGenerateDone
    \/ RecvGenerateError
    \/ SourceEnded
    \/ WorkerRecvInit
    \/ WorkerProgress
    \/ WorkerInitDone
    \/ WorkerInitError
    \/ WorkerRecvGenerate
    \/ WorkerGenerateDone
    \/ WorkerGenerateError
    \/ WorkerLateProgress

SpecLate == Init /\ [][NextLate]_vars

\* ---- CharacterLoaderSingleton --------------------------------------------
\* A loadModel that starts a load whether or not one is pending.
startsLoad_always(pend, url) == TRUE

\* loadModel: promise = this.pending.get(url); if (promise) return promise
startsLoad(pend, url) == url \notin pend

\* loadModel for every URL of the set U: a URL without a pending load gets
\* one gltfLoader.load call and an entry in the pending map.
loadModel(U) ==
    /\ pendingLoads' = pendingLoads \cup U
    /\ inFlight' = [u \in Urls |->
                      IF u \in U /\ startsLoad(pendingLoads, u)
                      THEN inFlight[u] + 1 ELSE inFlight[u]]
    /\ loadsStarted' = [u \in Urls |->
                      IF u \in U /\ startsLoad(pendingLoads, u)
                      THEN loadsStarted[u] + 1 ELSE loadsStarted[u]]

\* preload(urls): loadModel for the URLs neither cached nor pending
Preload ==
    /\ requests < MaxRequests
    /\ requests' = requests + 1
    /\ \E urls \in SUBSET Urls :
          /\ urls # {}
          /\ loadModel({u \in urls : u \notin cache /\ u \notin pendingLoads})
    /\ UNCHANGED <<cache, voiceVars>>

\* The common start of getClone and loadAnimationClips: a cached model is
\* used as it is, otherwise the caller awaits loadModel(url).
CachedOrLoad(url) ==
    /\ requests < MaxRequests
    /\ requests' = requests + 1
    /\ loadModel(IF url \in cache THEN {} ELSE {url})
    /\ UNCHANGED <<cache, voiceVars>>

GetClone == \E url \in Urls : CachedOrLoad(url)

LoadAnimationClips == \E url \in Urls : CachedOrLoad(url)

\* gltfLoader.load calls its onLoad callback
LoadSucceeded ==
    \E url \in Urls :
        /\ inFlight[url] > 0
        /\ inFlight' = [inFlight EXCEPT ![url] = @ - 1]
        /\ cache' = cache \cup {url}
        /\ pendingLoads' = pendingLoads \ {url}
        /\ UNCHANGED <<loadsStarted, requests, voiceVars>>

\* gltfLoader.load calls its onError callback
LoadFailed ==
    \E url \in Urls :
        /\ inFlight[url] > 0
        /\ inFlight' = [inFlight EXCEPT ![url] = @ - 1]
        /\ pendingLoads' = pendingLoads \ {url}
        /\ UNCHANGED <<cache, loadsStarted, requests, voiceVars>>

NextLoader ==
    \/ Preload
    \/ GetClone
    \/ LoadAnimationClips
    \/ LoadSucceeded
    \/ LoadFailed

SpecLoader == Init /\ [][NextLoader]_vars

\* ---- properties ---------------------------------------------------------
Playing == {i \in DOMAIN sources : sources[i].state = "playing"}
Handled(t, i) == <<t, i>> \in handled
Pos(seq, x) == CHOOSE k \in 1..Len(seq) : seq[k] = x
SpeakCallStep == earlyReturn' # earlyReturn \/ nextId' = nextId + 1
CallsAt(t) == {c \in initCalls : c.at = t}

\* C1: at most one clip is playing on the device: the sources that drainQueue
\* has started and that have neither ended nor been stopped number at most 1.
C1_AtMostOnePlaying == Cardinality(Playing) <= 1

\* C2: when every speakSentence call is awaited before the next and
\* stopPlayback is not called, the device starts the clips in call order
\* (ids are allocated in call order), no started clip belongs to a call that
\* returned 0, and no call that returned a duration is passed over by a
\* later one.
C2_AwaitedCallsPlayInOrder ==
    /\ \A i, j \in 1..Len(started) : i < j => started[i] < started[j]
    /\ \A i \in 1..Len(started) :
         /\ ret[started[i]] = "duration"
         /\ \A c \in Ids : c < started[i] /\ ret[c] = "duration" =>
                \E k \in 1..(i - 1) : started[k] = c

C2_Witness == started = <<0, 2>> /\ ret[1] = "zero" /\ NoCallPending

\* C3: playback is FIFO with respect to enqueue order: of two clips that are
\* both started, the one appended to the queue first is started first.
C3_FifoByEnqueue ==
    \A i, j \in 1..Len(started) :
        i < j => Pos(enqueued, started[i]) < Pos(enqueued, started[j])

C3_Witness ==
    /\ Len(started) = 3
    /\ started = enqueued
    /\ started # <<0, 1, 2>>
    /\ \E i \in DOMAIN sources : sources[i].stops > 0

\* C4: the 'ended' callback of a clip that stopPlayback has stopped changes
\* neither isPlaying nor currentSource and starts no clip.
C4_StoppedClipCallbackInert ==
    [][(\E i \in DOMAIN sources :
            /\ sources[i].state = "stopped"
            /\ ~sources[i].endedFired
            /\ sources'[i].endedFired)
       => UNCHANGED <<isPlaying, currentSource, started>>]_vars

\* C5: speakSentence never rejects: each call is pending or has returned a
\* number, and it has returned 0 when its request ended in generate_error.
C5_SpeakNeverRejects ==
    \A i \in Ids :
        /\ ret[i] \in {"unissued", "pending", "zero", "duration"}
        /\ Handled("generate_error", i) => ret[i] = "zero"

C5_Witness ==
    \E i, j \in Ids :
        /\ Handled("generate_error", i) /\ ret[i] = "zero"
        /\ Handled("generate_done", j) /\ ret[j] = "zero"

\* C6: a speakSentence call made while the manager is not Ready or has no
\* audio device returns 0 at once and changes nothing: no id allocated, no
\* message posted, correlation table, queue and isPlaying as before.
C6_GuardedSpeakHasNoEffect ==
    [][(SpeakCallStep /\ (~initialized \/ ~audioCtx))
       => /\ earlyReturn' = SpeakTime
          /\ UNCHANGED <<mgrVars, chanVars, devVars, ret, generatePosted>>]_vars

C6_Witness ==
    /\ earlyReturn = "ready"
    /\ initialized /\ ~audioCtx
    /\ nextId = 0 /\ toWorker = <<>> /\ pending = {}

\* C7: however many init() calls are made, one worker is spawned and one
\* 'init' message posted; an init() call on a Ready manager resolves and
\* changes no manager state.
C7_OneWorkerOneInit ==
    /\ [](/\ workersSpawned <= 1
          /\ initPosted <= 1
          /\ (initCalls # {} => workersSpawned = 1 /\ initPosted = 1))
    /\ [][(initialized /\ initCalls' # initCalls)
          => /\ \A c \in initCalls' \ initCalls : c.at = "ready" /\ c.outcome = "fulfilled"
             /\ UNCHANGED <<mgrVars, chanVars, devVars, workersSpawned, initPosted>>]_vars

C7_Witness ==
    /\ CallsAt("first") # {}
    /\ CallsAt("inflight") # {}
    /\ \E c \in CallsAt("ready") : c.outcome = "fulfilled"
    /\ workersSpawned = 1 /\ initPosted = 1

\* C8 (as stated): every init() call made while initialisation is in
\* progress has the outcome of the first call, resolves if the worker
\* reports init_done, rejects if it reports init_error, and does not settle
\* before that message is processed.
InProgressCalls == CallsAt("first") \cup CallsAt("inflight")
InitEnded == Handled("init_done", NoId) \/ Handled("init_error", NoId)

C8_ResolveOnInitDone ==
    \A c \in InProgressCalls :
        /\ \A f \in CallsAt("first") : c.outcome = f.outcome
        /\ Handled("init_done", NoId) => c.outcome = "fulfilled"
        /\ Handled("init_error", NoId) => c.outcome = "rejected"
        /\ c.outcome # "pending" => InitEnded

\* C8 (amended): as above, except that after init_done the calls resolve
\* only if the audio device is then created and reject if creating it raises.
C8_SharedOutcome ==
    \A c \in InProgressCalls :
        /\ \A f \in CallsAt("first") : c.outcome = f.outcome
        /\ Handled("init_done", NoId) =>
              c.outcome = IF audioCtx THEN "fulfilled" ELSE "rejected"
        /\ Handled("init_error", NoId) => c.outcome = "rejected"
        /\ c.outcome # "pending" => InitEnded

C8_Witness ==
    /\ CallsAt("first") # {}
    /\ CallsAt("inflight") # {}
    /\ Handled("init_done", NoId)
    /\ \A c \in InProgressCalls : c.outcome = "fulfilled"

\* C9: Failed is terminal: from init_error on isReady is false and no
\* 'generate' is posted; once it is processed every init() call, earlier or
\* later, has rejected, no second worker or 'init' message was produced, and
\* every speakSentence call returns 0.
InitErrorReported ==
    Handled("init_error", NoId) \/ \E k \in DOMAIN toMain : toMain[k].type = "init_error"

C9_FailedIsTerminal ==
    /\ [](InitErrorReported =>
            /\ ~initialized
            /\ generatePosted = <<>>
            /\ \A i \in Ids : ret[i] = "unissued")
    /\ [](Handled("init_error", NoId) =>
            /\ initPromise = "rejected"
            /\ \A c \in initCalls : c.outcome = "rejected"
            /\ workersSpawned = 1 /\ initPosted = 1)
    /\ [][(Handled("init_error", NoId) /\ SpeakCallStep)
          => /\ earlyReturn' = "settled"
             /\ UNCHANGED <<mgrVars, chanVars, ret>>]_vars

C9_Witness ==
    /\ Handled("init_error", NoId)
    /\ \E c \in CallsAt("settled") : c.outcome = "rejected"
    /\ earlyReturn = "settled"

\* C10: isReady is false until init_done has been processed (progress
\* messages do not set it) and, once true, stays true.
C10_ReadyMonotonic ==
    /\ [](initialized => Handled("init_done", NoId))
    /\ [][initialized => initialized']_vars

C10_Witness ==
    /\ initialized
    /\ progressCalls > 0
    /\ \E i \in Ids : Handled("generate_error", i)
    /\ \E i \in Ids : Handled("generate_done", i)

\* C11: stopPlayback can be called in any state; when it returns the queue
\* is empty, isPlaying is false, no source handle is held and every clip that
\* was playing has received exactly one stop request (none is left playing);
\* a call made right after another changes nothing.
C11_StopPlaybackHaltsPlayback ==
    [][StopPlayback =>
         /\ playbackQueue' = <<>>
         /\ ~isPlaying'
         /\ currentSource' = NoSource
         /\ \A i \in DOMAIN sources :
               sources[i].state = "playing" =>
                   sources'[i].state = "stopped" /\ sources'[i].stops = 1
         /\ (playbackQueue = <<>> /\ ~isPlaying /\ currentSource = NoSource
                => UNCHANGED vars)]_vars


\* The step in which handleMessage takes a generate response for an open request.
TakesReply(t, i) ==
    /\ toMain # <<>>
    /\ Head(toMain).type = t
    /\ Head(toMain).id = i
    /\ onmessage = "steady"
    /\ i \in pending
    /\ toMain' = Tail(toMain)

\* C12: stopPlayback leaves the correlation table, the id counter, both message
\* channels and the engine's work unchanged, and a generate_done taken for an
\* open request (before or after a stop) either ends in the skip path (the
\* device raised, the call returns 0) or appends the clip, which is then
\* waiting in the queue or already started; with nothing playing it starts at once.
C12_StopKeepsInFlightSynthesis ==
    [][/\ StopPlayback =>
            UNCHANGED <<pending, nextId, toWorker, toMain, generating, ret,
                        generatePosted>>
       /\ \A i \in Ids : TakesReply("generate_done", i) =>
            \/ ret'[i] = "zero"
            \/ /\ ret'[i] = "duration"
               /\ enqueued' = Append(enqueued, i)
               /\ \/ \E k \in DOMAIN playbackQueue' : playbackQueue'[k] = i
                  \/ started' = Append(started, i)
               /\ (~isPlaying => started' = Append(started, i))]_vars

\* Line 0 was requested before a stop that cut line 1 short; its audio came
\* back after the stop and is now playing.
C12_Witness ==
    /\ Len(sources) >= 2
    /\ sources[1].clip = 1 /\ sources[1].stops = 1
    /\ sources[2].clip = 0 /\ sources[2].state = "playing"
    /\ ret[0] = "duration"

\* C13: when generate_error is taken for request k, the call for k returns 0
\* and enqueues nothing; the queue, isPlaying, the current clip, the device's
\* sources, the start order and every other request (table entry and result)
\* are left as they were.
C13_SynthesisFailureIsolated ==
    [][\A k \in Ids : TakesReply("generate_error", k) =>
          /\ ret'[k] = "zero"
          /\ pending' = pending \ {k}
          /\ \A j \in Ids \ {k} : ret'[j] = ret[j]
          /\ UNCHANGED <<playbackQueue, isPlaying, currentSource, sources,
                         started, enqueued, nextId, toWorker>>]_vars

\* Synthesis of line 1 failed; lines 0 and 2 were played, in that order, and
\* their calls returned a duration.
C13_Witness ==
    /\ Handled("generate_error", 1)
    /\ started = <<0, 2>>
    /\ ret[0] = "duration" /\ ret[2] = "duration"
    /\ enqueued = <<0, 2>>

\* A source whose 'ended' event the device has yet to dispatch.
CanSignalEnd(src) ==
    \/ src.state = "playing"
    \/ src.state = "stopped" /\ ~src.endedFired

\* C14: a device failure while starting a clip does not block later dialogue:
\* the scheduler is never left with isPlaying = true while no source exists
\* that can still signal completion (only such a signal, or stopPlayback,
\* lets drainQueue start the clips enqueued afterwards).
C14_DeviceFailureDoesNotBlock ==
    isPlaying => \E i \in DOMAIN sources : CanSignalEnd(sources[i])

\* The number of times clip i was appended to the playback queue.
TimesEnqueued(i) == Cardinality({k \in DOMAIN enqueued : enqueued[k] = i})

\* Once a call has returned, what it returned stays what it is.
ReturnIsFinal ==
    \A i \in Ids : ret[i] \in {"zero", "duration"} =>
        ret'[i] = ret[i] /\ duration'[i] = duration[i]

\* C15 as stated: every call answered with generate_done carrying n samples
\* at rate r appends exactly one clip and returns n / r.
C15_DoneReturnsDuration ==
    [][\A i \in Ids : TakesReply("generate_done", i) =>
          /\ ret'[i] = "duration"
          /\ duration'[i] * Head(toMain).sampleRate = Head(toMain).len * 1000
          /\ enqueued' = Append(enqueued, i)]_vars

\* C15, amended: a call answered with generate_done carrying n samples at rate
\* r returns n / r and appends exactly one clip, unless the audio device raises
\* while the clip is built or started in that same step; then it returns 0 and
\* has appended at most one clip. What a call returned never changes
\* afterwards, whatever happens to its clip.
C15_DoneReturnsDurationUnlessDeviceRaises ==
    [][/\ \A i \in Ids : TakesReply("generate_done", i) =>
            \/ /\ deviceFaults' = deviceFaults
               /\ ret'[i] = "duration"
               /\ duration'[i] * Head(toMain).sampleRate = Head(toMain).len * 1000
               /\ enqueued' = Append(enqueued, i)
               /\ TimesEnqueued(i)' = 1
            \/ /\ deviceFaults' = deviceFaults + 1
               /\ ret'[i] = "zero"
               /\ duration'[i] = 0
               /\ TimesEnqueued(i)' <= 1
       /\ ReturnIsFinal]_vars

\* 24000 samples at 24000 Hz: the call for line 1 has returned 1 second while
\* its clip still waits behind line 0, whose 12000 samples gave half a second.
C15_Witness ==
    /\ ret[1] = "duration" /\ duration[1] = 1000
    /\ ret[0] = "duration" /\ duration[0] = 500
    /\ playbackQueue = <<1>>
    /\ started = <<0>>

\* C16: the ids carried by the posted 'generate' messages are 0, 1, 2, ... in
\* call order: each is strictly greater than every id posted before it, the
\* counter stands one past the last id handed out, and it never goes back,
\* whatever became of the earlier requests.
C16_IdsStrictlyIncreasing ==
    /\ \A k \in DOMAIN generatePosted : generatePosted[k] = k - 1
    /\ \A j, k \in DOMAIN generatePosted :
          j < k => generatePosted[j] < generatePosted[k]
    /\ nextId = Len(generatePosted)

\* Request 0 has completed and request 1 has failed; the third request got id 2.
C16_Witness ==
    /\ generatePosted = <<0, 1, 2>>
    /\ ret[0] = "duration"
    /\ ret[1] = "zero"
    /\ ret[2] = "pending"

\* The ids whose generate response handleMessage has processed.
Processed == {i \in Ids : Handled("generate_done", i) \/ Handled("generate_error", i)}

\* C17: the correlation table holds exactly the ids posted by generateAudio
\* whose response has not been processed; a processed id was settled one way
\* only (fulfilled on generate_done, rejected on generate_error, which the
\* caller sees as 0), and a call is waiting exactly while its entry is there.
C17_TableIsPostedMinusProcessed ==
    /\ pending = {generatePosted[k] : k \in DOMAIN generatePosted} \ Processed
    /\ \A i \in Ids :
          /\ ~(Handled("generate_done", i) /\ Handled("generate_error", i))
          /\ (ret[i] = "pending") <=> (i \in pending)
          /\ Handled("generate_error", i) => ret[i] = "zero"
          /\ Handled("generate_done", i) => ret[i] \in {"duration", "zero"}
          /\ ret[i] = "duration" => Handled("generate_done", i)

\* Three requests were posted; 0 was fulfilled, 2 was rejected, 1 is still open.
C17_Witness ==
    /\ nextId = 3
    /\ Handled("generate_done", 0)
    /\ Handled("generate_error", 2)
    /\ pending = {1}

\* The step in which the handler takes a generate response that has no entry
\* in the correlation table.
TakesStale ==
    /\ toMain # <<>>
    /\ Head(toMain).type \in {"generate_done", "generate_error"}
    /\ Head(toMain).id \notin pending
    /\ toMain' = Tail(toMain)

\* C18: a generate_done or generate_error whose id is not in the correlation
\* table changes nothing: the table, the queue, isPlaying, the current clip,
\* the device's sources, every call's result and the worker side stay as they
\* were, and no device operation is attempted (nothing can raise).
C18_StaleResponseIgnored ==
    [][TakesStale =>
          UNCHANGED <<mgrVars, wrkVars, toWorker, devVars, ret, duration,
                      started, enqueued, generatePosted>>]_vars

\* A second copy of the response to request 0 was dropped while a clip was
\* playing and the next request was open.
C18_Witness ==
    /\ Handled("stale", 0)
    /\ Handled("generate_done", 0)
    /\ isPlaying
    /\ pending = {1}

\* C19: clips are enqueued in the order in which their generate_done messages
\* are processed, wherever their calls stand in call order: the only step that
\* enqueues is the one that takes a generate_done, it puts that clip behind
\* every waiting clip (or starts it when nothing is playing), and the waiting
\* clips are the last ones enqueued, in that order.
C19_EnqueueFollowsCompletionOrder ==
    [][/\ enqueued' # enqueued => \E i \in Ids : TakesReply("generate_done", i)
       /\ \A i \in Ids : TakesReply("generate_done", i) /\ ret'[i] = "duration" =>
             /\ enqueued' = Append(enqueued, i)
             /\ IF isPlaying
                THEN playbackQueue' = Append(playbackQueue, i) /\ started' = started
                ELSE playbackQueue' = playbackQueue /\ started' = Append(started, i)
       /\ \A j, k \in DOMAIN playbackQueue' :
             j < k => Pos(enqueued', playbackQueue'[j]) < Pos(enqueued', playbackQueue'[k])]_vars

\* Line 1 was requested after line 0 but answered first: it was played first,
\* and both calls returned a duration.
C19_Witness ==
    /\ started = <<1, 0>>
    /\ enqueued = <<1, 0>>
    /\ ret[0] = "duration" /\ ret[1] = "duration"

\* C20: an unanswered request blocks only itself. Its table entry goes away
\* only in the step that takes its own response and its call waits as long as
\* the entry is there; a response taken for another request j settles j and
\* removes entry j alone, however many older requests are still open; and
\* stopPlayback and new speakSentence calls leave the open entries alone.
C20_UnansweredBlocksOnlyItself ==
    [][/\ \A i \in pending :
             /\ ret[i] = "pending"
             /\ i \notin pending' =>
                   TakesReply("generate_done", i) \/ TakesReply("generate_error", i)
       /\ \A j \in Ids :
             TakesReply("generate_done", j) \/ TakesReply("generate_error", j) =>
                /\ ret'[j] \in {"duration", "zero"}
                /\ pending' = pending \ {j}
                /\ \A i \in pending \ {j} : ret'[i] = "pending"
       /\ StopPlayback \/ SpeakCallStep => pending \subseteq pending']_vars

\* The worker has not answered request 0. Requests 1 and 2, made after it,
\* were answered and played, a stopPlayback cut line 1 short, and request 0 is
\* still open with its call waiting.
C20_Witness ==
    /\ 0 \in pending /\ 0 \in generating /\ ret[0] = "pending"
    /\ started = <<1, 2>>
    /\ ret[1] = "duration" /\ ret[2] = "duration"
    /\ sources[1].stops = 1
    /\ sources[2].state = "playing"

\* C21: a 'generate' message the worker handles while the engine instance is
\* not set (before or during loading, or after loading failed) is answered at
\* once with generate_error carrying the same id, and the engine is not
\* invoked for it; a generate_done is posted only for a request the engine
\* was invoked for.
C21_GenerateWithoutEngineRejected ==
    [][/\ WorkerRecvGenerate /\ ~tts =>
             /\ toMain' = Append(toMain, Msg("generate_error", Head(toWorker).id))
             /\ generating' = generating
       /\ generating' # generating /\ generating \subseteq generating' => tts
       /\ WorkerGenerateDone /\ Len(toMain') > Len(toMain) =>
             /\ tts
             /\ toMain'[Len(toMain')].type = "generate_done" =>
                   toMain'[Len(toMain')].id \in generating]_vars

\* Request 0 was rejected while the engine was loading, loading then failed,
\* and request 1 was rejected after that.
C21_Witness ==
    /\ toMain = <<Msg("generate_error", 0), Msg("init_error", NoId),
                  Msg("generate_error", 1)>>
    /\ ~tts /\ ~loading
    /\ generating = {}

\* The number of messages on the worker-to-client channel whose type is in
\* types and whose id is i.
Replies(types, i) ==
    Cardinality({n \in DOMAIN toMain : toMain[n].type \in types /\ toMain[n].id = i})

\* The inbound messages the worker's handler has been started for.
InitReceived == initPosted = 1 /\ \A n \in DOMAIN toWorker : toWorker[n].type # "init"
GenerateReceived(i) ==
    /\ \E n \in DOMAIN generatePosted : generatePosted[n] = i
    /\ \A n \in DOMAIN toWorker : toWorker[n] # Msg("generate", i)

\* C22: the worker posts exactly one terminal reply per inbound message: one
\* of init_done / init_error for 'init' once loading has ended and none
\* before, and one of generate_done / generate_error with id k for
\* 'generate' k once the engine call has returned or thrown (or was refused)
\* and none before; never both and never twice.
C22_OneTerminalReplyPerMessage ==
    /\ Replies({"init_done", "init_error"}, NoId) =
          (IF InitReceived /\ ~loading THEN 1 ELSE 0)
    /\ \A k \in Ids :
          Replies({"generate_done", "generate_error"}, k) =
             (IF GenerateReceived(k) /\ k \notin generating THEN 1 ELSE 0)
    /\ tts => Replies({"init_done"}, NoId) = 1

\* The engine was loaded; request 0 was synthesised and request 1 failed in
\* the engine: three inbound messages, three terminal replies.
C22_Witness ==
    /\ Replies({"init_done"}, NoId) = 1
    /\ Replies({"generate_done"}, 0) = 1
    /\ Replies({"generate_error"}, 1) = 1
    /\ Len(toMain) = 3 + progressSent
    /\ toWorker = <<>> /\ generating = {}

\* C23: the progress callback is invoked once for each init_progress message
\* the manager processes while it is initializing, and never once the
\* initialization has ended (init_done or init_error processed), late
\* init_progress messages included.
C23_ProgressOnlyWhileInitializing ==
    [][/\ progressCalls' # progressCalls =>
             /\ ~InitEnded
             /\ progressCalls' = progressCalls + 1
             /\ Head(toMain).type = "init_progress" /\ toMain' = Tail(toMain)
       /\ (~InitEnded /\ initPromise = "pending" /\ toMain # <<>>
           /\ Head(toMain).type = "init_progress" /\ toMain' = Tail(toMain))
             => progressCalls' = progressCalls + 1]_vars

\* The clips held in a sequence.
Clips(seq) == {seq[k] : k \in DOMAIN seq}

\* C24: no clip is replayed or resurrected. Each clip is started at most
\* once; a clip that has been started is not in the queue; a start takes the
\* head of the queue (or the clip just pushed onto an empty queue); the only
\* way into the queue is the step that takes the clip's own generate_done;
\* and what stopPlayback removes from the queue is in no later queue or start.
C24_NoReplay ==
    [][/\ \A j, k \in DOMAIN started' : j # k => started'[j] # started'[k]
       /\ \A j, k \in DOMAIN playbackQueue' :
             j # k => playbackQueue'[j] # playbackQueue'[k]
       /\ Clips(playbackQueue') \cap Clips(started') = {}
       /\ started' # started =>
             /\ Len(started') = Len(started) + 1
             /\ SubSeq(started', 1, Len(started)) = started
             /\ \/ playbackQueue # <<>> /\ started'[Len(started')] = Head(playbackQueue)
                \/ /\ playbackQueue = <<>>
                   /\ TakesReply("generate_done", started'[Len(started')])
                   /\ started'[Len(started')] \notin Clips(enqueued)
       /\ \A i \in Clips(playbackQueue') \ Clips(playbackQueue) :
             TakesReply("generate_done", i) /\ i \notin Clips(enqueued)
       /\ StopPlayback =>
             /\ playbackQueue' = <<>>
             /\ started' = started
             /\ Clips(playbackQueue) \subseteq Clips(enqueued) \ Clips(started)]_vars

\* Clip 1 was waiting behind clip 0 when stopPlayback emptied the queue; clip
\* 2 was played to its end afterwards, the scheduler is idle and clip 1 was
\* never started (no device operation failed, so nothing else removed it).
C24_Witness ==
    /\ enqueued = <<0, 1, 2>>
    /\ started = <<0, 2>>
    /\ deviceFaults = 0
    /\ sources[1].stops = 1
    /\ sources[2].state = "finished"
    /\ playbackQueue = <<>> /\ ~isPlaying

\* C25: whenever isReady is true the audio device has been created, so no
\* speakSentence call made while isReady is true returns 0 through its guard.
C25_ReadyImpliesDevice ==
    /\ initialized => audioCtx
    /\ earlyReturn # "ready"

\* C26: whenever the promise of an init() call has rejected, isReady is false.
C26_RejectedImpliesNotReady ==
    \A c \in initCalls : c.outcome = "rejected" => ~initialized

\* C27: the scheduler is never idle with work waiting: after every manager
\* step, a non-empty playback queue means isPlaying is true and a current
\* clip handle is held.
C27_NeverIdleWithWork ==
    playbackQueue # <<>> => isPlaying /\ currentSource # NoSource

\* C28: playback makes progress. A waiting clip is started by drainQueue,
\* which from then on runs only in an 'ended' callback (a new speakSentence
\* finds isPlaying true and returns); so progress needs, whenever a clip is
\* waiting, a source whose 'ended' event is still to come.
C28_WaitingClipCanProgress ==
    playbackQueue # <<>> =>
        /\ isPlaying
        /\ \E i \in DOMAIN sources : CanSignalEnd(sources[i])

\* C29: only the progress callback of the init() call that started the
\* initialization is ever invoked; the callback of a call coalesced onto the
\* initialization in flight, or made after it ended, is never bound to the
\* handler and never called.
C29_OnlyStarterCallbackInvoked ==
    /\ progressTo \subseteq {"first"}
    /\ onProgress \in {"none", "first"}
    /\ progressCalls > 0 <=> progressTo = {"first"}

\* A second init() was coalesced onto the initialization in flight and a
\* third was made after Ready; progress was reported, to the first call's
\* callback only.
C29_Witness ==
    /\ CallsAt("inflight") # {}
    /\ CallsAt("ready") # {}
    /\ progressCalls = 1
    /\ progressTo = {"first"}

\* C30: the loader runs at most one underlying load per URL at a time and
\* never reloads a cached URL. A URL is never both cached and pending; it is
\* pending exactly while its one load is in flight; a load is started only
\* for a URL that is neither cached nor pending (requests for a pending URL
\* share its load); a cached URL stays cached; and an entry leaves the
\* pending map only when its load ends, into the cache on success.
C30_OneLoadPerUrl ==
    [][\A u \in Urls :
          /\ ~(u \in cache' /\ u \in pendingLoads')
          /\ inFlight'[u] <= 1
          /\ (u \in pendingLoads') <=> (inFlight'[u] = 1)
          /\ loadsStarted'[u] # loadsStarted[u] =>
                /\ loadsStarted'[u] = loadsStarted[u] + 1
                /\ u \notin cache /\ u \notin pendingLoads
                /\ u \in pendingLoads'
          /\ u \in cache => u \in cache' /\ loadsStarted'[u] = loadsStarted[u]
          /\ (u \in pendingLoads /\ requests' # requests) =>
                u \in pendingLoads' /\ inFlight'[u] = inFlight[u]
          /\ (u \in pendingLoads /\ u \notin pendingLoads') =>
                inFlight'[u] = inFlight[u] - 1
          /\ (u \notin cache /\ u \in cache') =>
                u \in pendingLoads /\ u \notin pendingLoads']_vars

\* The first load of URL 1 failed and a later request started a second one,
\* which succeeded; two requests for URL 2 share its one load, still in flight.
C30_Witness ==
    /\ loadsStarted[1] = 2 /\ 1 \in cache /\ 1 \notin pendingLoads
    /\ loadsStarted[2] = 1 /\ 2 \in pendingLoads /\ inFlight[2] = 1
    /\ requests = 4
====
